---------------------------- MODULE Spec2Model ----------------------------
(***************************************************************************)
(* A model of the data processing pipeline of covid-economic-analysis:     *)
(* DataProcessor.clean_covid_data, DataProcessor.clean_economic_data and   *)
(* DataProcessor.merge_datasets (src/src/data_processing.py).              *)
(*                                                                         *)
(* Tables (pandas DataFrames) are sequences of records, one record per     *)
(* row, in row order.  Numbers are float64 values, modelled exactly as     *)
(* pairs <<n, d>> standing for n/d:                                        *)
(*     <<n, d>> with d > 0   the rational n/d, in lowest terms             *)
(*     <<1, 0>>, <<-1, 0>>   +inf and -inf                                 *)
(*     <<0, 0>>              NaN, which is also pandas' missing value      *)
(* Rounding of float64 is not modelled.                                    *)
(***************************************************************************)
EXTENDS Integers, Sequences, FiniteSets, TLC

VARIABLES
    covid_raw,      \* the caller's raw COVID-19 table (argument of clean_covid_data)
    covid_df,       \* the table clean_covid_data returned
    covid_order,    \* the order sort_values gave: covid_df[i] comes from covid_raw[covid_order[i]]
    covid_pc,       \* "raw", "cleaned" or "raised"
    covid_again,    \* the table clean_covid_data returned when given covid_df
    covid_again_pc, \* "none" or "cleaned"
    economic_raw,   \* the caller's raw economic table
    economic_df,    \* the table clean_economic_data returned
    economic_order, \* the order sort_values gave to the economic table
    economic_pc,    \* "raw", "cleaned" or "raised"
    merged_df,      \* the table merge_datasets returned
    merged_pc,      \* "none" or "merged"
    correlations,   \* what _calculate_correlations returned for merged_df
    api_tables,     \* the rows stored in covid_data, economic_data and merged_data
    api_response,   \* the response of the last request to the REST API
    main_pc,        \* the stage main is about to run, "idle", "done" or "raised"
    main_calls,     \* the stages main has called, in the order of the calls
    cache,          \* SimpleCache.cache: the entries, in the order of insertion
    cache_ttl,      \* SimpleCache.ttl
    cache_max_size, \* SimpleCache.max_size
    cache_hits,     \* SimpleCache.hits
    cache_misses,   \* SimpleCache.misses
    cache_now,      \* time.time()
    cache_ret,      \* the last call on the cache and what it returned
    cache_latest,   \* history: for each key, its latest set and whether it is still stored
    cache_recency,  \* history: the stored keys, least recently used first
    decorator_ttl,  \* the ttl given to @cached, 0 for None
    cached_at,      \* history: for each key, when the wrapper stored its result, -1 if not stored
    db_conn,        \* DatabaseManager.conn: 0 for None, else a connection
    db_cursor,      \* DatabaseManager.cursor: 0 for None, else the connection it belongs to
    db_open,        \* the connections that are open
    db_count,       \* the connections sqlite3.connect has made
    db_pc,          \* where the running call of the DatabaseManager is
    db_call         \* the running or the last call of the DatabaseManager

vars == <<covid_raw, covid_df, covid_order, covid_pc, covid_again, covid_again_pc,
          economic_raw, economic_df, economic_order, economic_pc,
          merged_df, merged_pc, correlations,
          api_tables, api_response, main_pc, main_calls,
          cache, cache_ttl, cache_max_size, cache_hits, cache_misses, cache_now,
          cache_ret, cache_latest, cache_recency, decorator_ttl, cached_at,
          db_conn, db_cursor, db_open, db_count, db_pc, db_call>>

covid_vars == <<covid_raw, covid_df, covid_order, covid_pc, covid_again, covid_again_pc>>
economic_vars == <<economic_raw, economic_df, economic_order, economic_pc>>
merged_vars == <<merged_df, merged_pc, correlations>>
pipeline_vars == <<covid_vars, economic_vars, merged_vars>>
api_vars == <<api_tables, api_response>>

\* what does not belong to a run of the DataProcessor
main_vars == <<main_pc, main_calls>>
cache_vars == <<cache, cache_ttl, cache_max_size, cache_hits, cache_misses, cache_now,
                cache_ret, cache_latest, cache_recency, decorator_ttl, cached_at>>
db_vars == <<db_conn, db_cursor, db_open, db_count, db_pc, db_call>>
service_vars == <<api_vars, main_vars, cache_vars, db_vars>>

\* no table stored, no request made
ApiIdle ==
    /\ api_tables = [covid |-> <<>>, economic |-> <<>>, merged |-> <<>>]
    /\ api_response = [status |-> "none"]

\* main is not running
MainIdle ==
    /\ main_pc = "idle"
    /\ main_calls = <<>>

\* the keys of the cache entries
Keys == {"k1", "k2", "k3"}

\* the global cache of cache.py line 147, SimpleCache(), not used yet
DefaultTtl == 300
DefaultMaxSize == 100

CacheIdle ==
    /\ cache = <<>>
    /\ cache_ttl = DefaultTtl
    /\ cache_max_size = DefaultMaxSize
    /\ cache_hits = 0
    /\ cache_misses = 0
    /\ cache_now = 0
    /\ cache_ret = [op |-> "none"]
    /\ cache_latest = [k \in Keys |-> [value |-> 0, time |-> 0, stored |-> FALSE]]
    /\ cache_recency = <<>>
    /\ decorator_ttl = 0
    /\ cached_at = [k \in Keys |-> -1]

\* DatabaseManager.__init__, and no call yet
DbIdle ==
    /\ db_conn = 0
    /\ db_cursor = 0
    /\ db_open = {}
    /\ db_count = 0
    /\ db_pc = "idle"
    /\ db_call = [method |-> "none"]

ServicesIdle == ApiIdle /\ MainIdle /\ CacheIdle /\ DbIdle

---------------------------------------------------------------------------
(* float64 arithmetic, exact on the rationals, IEEE on inf and NaN *)

Abs(n) == IF n < 0 THEN -n ELSE n

Sign(n) == IF n < 0 THEN -1 ELSE IF n > 0 THEN 1 ELSE 0

RECURSIVE GCD(_, _)
GCD(a, b) == IF b = 0 THEN a ELSE GCD(b, a % b)

Norm(n, d) ==
    IF d = 0 THEN <<Sign(n), 0>>
    ELSE LET g == GCD(Abs(n), Abs(d))
             s == IF d < 0 THEN -1 ELSE 1
         IN  <<(s * n) \div g, (s * d) \div g>>

NaN == <<0, 0>>
Inf == <<1, 0>>
Num(n) == <<n, 1>>

IsNaN(a) == a = NaN
IsInf(a) == a[2] = 0 /\ a[1] # 0
IsFinite(a) == a[2] > 0

Add(a, b) ==
    IF IsNaN(a) \/ IsNaN(b) THEN NaN
    ELSE IF IsInf(a) /\ IsInf(b) THEN (IF a = b THEN a ELSE NaN)
    ELSE IF IsInf(a) THEN a
    ELSE IF IsInf(b) THEN b
    ELSE Norm(a[1] * b[2] + b[1] * a[2], a[2] * b[2])

Neg(a) == <<-a[1], a[2]>>

Sub(a, b) == Add(a, Neg(b))

Mul(a, b) == Norm(a[1] * b[1], a[2] * b[2])

Recip(a) == Norm(a[2], a[1])

Div(a, b) == Mul(a, Recip(b))

\* a < b on float64; every comparison with NaN is false
Lt(a, b) ==
    IF IsNaN(a) \/ IsNaN(b) THEN FALSE
    ELSE IF IsInf(a) THEN a[1] < 0 /\ b # a
    ELSE IF IsInf(b) THEN b[1] > 0
    ELSE a[1] * b[2] < b[1] * a[2]

RECURSIVE SumSeq(_)
SumSeq(s) == IF s = <<>> THEN Num(0) ELSE Add(s[1], SumSeq(Tail(s)))

\* Series.mean / rolling(...).mean over values none of which is missing
MeanSeq(s) == Div(SumSeq(s), Num(Len(s)))

\* Series.max: the greatest of the values that are not missing
MaxSeq(s) ==
    LET present == {i \in 1..Len(s) : ~IsNaN(s[i])}
    IN  IF present = {} THEN NaN
        ELSE s[CHOOSE i \in present : \A j \in present : ~Lt(s[i], s[j])]

\* Series.fillna(value)
fillna(a, value) == IF IsNaN(a) THEN value ELSE a

---------------------------------------------------------------------------
(* _calculate_correlations: the shape of the result *)

\* lines 153-160: the two columns of each key of the result
CorrelationPairs ==
    [cases_gdp           |-> <<"new_cases", "gdp_growth">>,
     cases_unemployment  |-> <<"new_cases", "unemployment_rate">>,
     cases_inflation     |-> <<"new_cases", "inflation_rate">>,
     deaths_gdp          |-> <<"new_deaths", "gdp_growth">>,
     deaths_unemployment |-> <<"new_deaths", "unemployment_rate">>,
     deaths_inflation    |-> <<"new_deaths", "inflation_rate">>]

CorrelationKeys == DOMAIN CorrelationPairs

\* a coefficient that is not defined
NullCoefficient == [sign |-> 0, square |-> NaN]

\* before merge_datasets has run there is no result
NoCorrelations == [k \in CorrelationKeys |-> NullCoefficient]

---------------------------------------------------------------------------
(* dates *)

\* A raw date is the pair <<month, day>> read from the source of the data;
\* pd.to_datetime turns it into a timestamp or raises.
AlwaysParseable(raw) == TRUE

IsParseable(raw) == raw[1] \in 1..12 /\ raw[2] \in 1..31

to_datetime(raw) == [month |-> raw[1], day |-> raw[2]]

\* Series.dt.to_period('M')
to_period_M(ts) == ts.month

DateLE(a, b) == a.month < b.month \/ (a.month = b.month /\ a.day <= b.day)

\* DataFrame.sort_values('date'), default kind='quicksort', which is not stable:
\* every order that is ascending in date is a possible outcome; rows of equal
\* date come in any order.  The result is the set of these orders, each a
\* sequence of row numbers of the table sorted.
SortValuesUnsorted(dates) == {[i \in 1..Len(dates) |-> i]}

RECURSIVE SortOrders(_, _)
SortOrders(dates, rows) ==
    IF rows = {} THEN {<<>>}
    ELSE LET first == {i \in rows : \A j \in rows : DateLE(dates[i], dates[j])}
         IN  UNION {{<<i>> \o rest : rest \in SortOrders(dates, rows \ {i})} : i \in first}

sort_values(dates) == SortOrders(dates, 1..Len(dates))

---------------------------------------------------------------------------
(* clean_covid_data *)

\* the 7 of rolling(window=7, min_periods=1)
Window == 7

\* rows 1..i of df that belong to the country of row i, in row order
GroupRows(df, i) == {j \in 1..i : df[j].country = df[i].country}

SetMax(S) == CHOOSE x \in S : \A y \in S : y <= x

\* df.groupby('country')[col].diff() at row i: the value minus the value of the
\* previous row of the same country, NaN at the first row of a country
GroupDiffClamped(df, i, col) ==
    LET before == GroupRows(df, i) \ {i}
        d == IF before = {} THEN NaN ELSE Sub(df[i][col], df[SetMax(before)][col])
    IN  IF Lt(d, Num(0)) THEN Num(0) ELSE d

GroupDiff(df, i, col) ==
    LET before == GroupRows(df, i) \ {i}
    IN  IF before = {} THEN NaN ELSE Sub(df[i][col], df[SetMax(before)][col])

\* the k-th smallest element of a set of row numbers
RECURSIVE Kth(_, _)
Kth(S, k) ==
    LET m == CHOOSE x \in S : \A y \in S : x <= y
    IN  IF k = 1 THEN m ELSE Kth(S \ {m}, k - 1)

\* df.groupby('country')[col].transform(lambda x: x.rolling(window=7,
\* min_periods=1).mean()) at row i: the mean of col over the last Window rows of
\* the country ending at row i, over all of them while there are fewer
GroupRollingMeanFullWindowOnly(df, i, col) ==
    LET g == GroupRows(df, i)
        n == Cardinality(g)
    IN  IF n < Window THEN NaN
        ELSE MeanSeq([k \in 1..Window |-> df[Kth(g, n - Window + k)][col]])

GroupRollingMean(df, i, col) ==
    LET g == GroupRows(df, i)
        n == Cardinality(g)
        w == IF n < Window THEN n ELSE Window
    IN  MeanSeq([k \in 1..w |-> df[Kth(g, n - w + k)][col]])

\* (df['deaths'] / df['cases'] * 100).fillna(0)
CaseFatalityRate(deaths, cases) ==
    fillna(Mul(Div(deaths, cases), Num(100)), Num(0))

SortedUnfilled(raw, order) ==
    [i \in 1..Len(order) |->
        [date      |-> to_datetime(raw[order[i]].date),
         country   |-> raw[order[i]].country,
         cases     |-> raw[order[i]].cases,
         deaths    |-> raw[order[i]].deaths,
         recovered |-> raw[order[i]].recovered]]

\* lines 31-37: the rows in the order sort_values gave, dates parsed, every
\* missing value replaced by 0
SortedFilled(raw, order) ==
    [i \in 1..Len(order) |->
        [date      |-> to_datetime(raw[order[i]].date),
         country   |-> raw[order[i]].country,
         cases     |-> fillna(raw[order[i]].cases, Num(0)),
         deaths    |-> fillna(raw[order[i]].deaths, Num(0)),
         recovered |-> fillna(raw[order[i]].recovered, Num(0))]]

\* lines 40-41
WithDiffs(df) ==
    [i \in 1..Len(df) |->
        df[i] @@ [new_cases  |-> fillna(GroupDiff(df, i, "cases"), Num(0)),
                  new_deaths |-> fillna(GroupDiff(df, i, "deaths"), Num(0))]]

\* lines 44-52
WithAverages(df) ==
    [i \in 1..Len(df) |->
        df[i] @@ [cases_7day_avg     |-> GroupRollingMean(df, i, "new_cases"),
                  deaths_7day_avg    |-> GroupRollingMean(df, i, "new_deaths"),
                  case_fatality_rate |-> CaseFatalityRate(df[i].deaths, df[i].cases)]]

\* the table clean_covid_data returns when sort_values gives `order`
CleanCovidTable(raw, order) == WithAverages(WithDiffs(SortedFilled(raw, order)))

\* df['date'] = pd.to_datetime(df['date']) assigns into the caller's table
DatesParsed(raw) ==
    [i \in 1..Len(raw) |-> [raw[i] EXCEPT !.date = to_datetime(raw[i].date)]]

\* the columns of a table built from a list of records, one per row
\* (pd.DataFrame(processed_data)): a table of no record has no column
columns(df) == UNION {DOMAIN df[i] : i \in 1..Len(df)}

clean_covid_data_call ==
    /\ covid_pc = "raw"
    /\ IF \/ "date" \notin columns(covid_raw)
          \/ \E i \in 1..Len(covid_raw) : ~IsParseable(covid_raw[i].date)
       THEN /\ covid_pc' = "raised"
            /\ UNCHANGED <<covid_raw, covid_df, covid_order>>
       ELSE \E order \in sort_values([i \in 1..Len(covid_raw) |-> to_datetime(covid_raw[i].date)]) :
            /\ covid_df' = CleanCovidTable(covid_raw, order)
            /\ covid_order' = order
            /\ covid_raw' = DatesParsed(covid_raw)
            /\ covid_pc' = "cleaned"
    /\ UNCHANGED <<covid_again, covid_again_pc>>

clean_covid_data ==
    /\ clean_covid_data_call
    /\ UNCHANGED <<economic_vars, merged_vars, service_vars>>

\* the fields clean_covid_data assigns
DerivedFields ==
    {"new_cases", "new_deaths", "cases_7day_avg", "deaths_7day_avg", "case_fatality_rate"}

\* lines 31-37 on a table clean_covid_data returned: the dates are timestamps
\* already, which pd.to_datetime leaves as they are
SortedFilledAgain(df, order) ==
    [i \in 1..Len(order) |->
        [f \in (DOMAIN df[order[i]]) \ DerivedFields |->
            IF f \in {"date", "country", "month"} THEN df[order[i]][f]
            ELSE fillna(df[order[i]][f], Num(0))]]

\* clean_covid_data(clean_covid_data(df)): the second call
clean_covid_data_again ==
    /\ covid_pc = "cleaned"
    /\ covid_again_pc = "none"
    /\ \E order \in sort_values([i \in 1..Len(covid_df) |-> covid_df[i].date]) :
          covid_again' = WithAverages(WithDiffs(SortedFilledAgain(covid_df, order)))
    /\ covid_again_pc' = "cleaned"
    /\ UNCHANGED <<covid_raw, covid_df, covid_order, covid_pc, economic_vars, merged_vars,
                   service_vars>>

---------------------------------------------------------------------------
(* inputs of clean_covid_data *)

\* the longest raw COVID-19 table whose records are drawn freely
MaxCovidRows == 2

\* the longest raw COVID-19 series of one country
MaxCovidSeries == 8

Countries == {"DE", "US"}

RawDates == {<<1, 2>>, <<2, 1>>}

\* <<cases, deaths, recovered>> of a raw record; NaN is a missing value
RawCounts == {<<Num(0), Num(1), NaN>>, <<Num(3), Num(1), Num(1)>>, <<NaN, NaN, Num(2)>>}

CovidRecord(d, c, n) ==
    [date |-> d, country |-> c, cases |-> n[1], deaths |-> n[2], recovered |-> n[3]]

RawCovidRecords ==
    {CovidRecord(d, c, n) : d \in RawDates, c \in Countries, n \in RawCounts}

\* every raw table of 1..MaxCovidRows records, in every order
ShortCovidTables ==
    UNION {[1..n -> RawCovidRecords] : n \in 1..MaxCovidRows}

\* raw tables of three records, one of another country between two of a country
InterleavedCovidTables ==
    {<<CovidRecord(d[1], "US", n[1]), CovidRecord(d[2], "DE", n[2]),
       CovidRecord(d[3], "US", n[3])>> : d \in [1..3 -> RawDates], n \in [1..3 -> RawCounts]}

\* the date of the k-th day of a daily series
SeriesDate(k) == <<1 + ((k - 1) \div 3), 1 + ((k - 1) % 3)>>

SeriesCounts == {<<Num(1), Num(0), Num(0)>>, <<Num(4), Num(1), Num(0)>>}

\* a daily series of one country, of Window..MaxCovidSeries days
LongCovidSeries ==
    UNION {{[k \in 1..n |-> CovidRecord(SeriesDate(k), "US", f[k])] :
                f \in [1..n -> SeriesCounts]} : n \in Window..MaxCovidSeries}

\* a table with a record whose date cannot be parsed
BadDateTables ==
    {<<CovidRecord(d, "US", <<Num(1), Num(0), Num(0)>>),
       CovidRecord(<<13, 1>>, "US", <<Num(2), Num(0), Num(0)>>)>> : d \in RawDates}

NoTable == <<>>

\* the table _process_global_data builds when the timeline has no day
EmptyCovidTables == {<<>>}

InitCovid ==
    /\ covid_raw \in ShortCovidTables \cup InterleavedCovidTables \cup LongCovidSeries
                     \cup BadDateTables \cup EmptyCovidTables
    /\ covid_df = NoTable
    /\ covid_order = <<>>
    /\ covid_pc = "raw"
    /\ covid_again = NoTable
    /\ covid_again_pc = "none"
    /\ economic_raw = NoTable
    /\ economic_df = NoTable
    /\ economic_order = <<>>
    /\ economic_pc = "raw"
    /\ merged_df = NoTable
    /\ merged_pc = "none"
    /\ correlations = NoCorrelations
    /\ ServicesIdle

NextCovid == clean_covid_data \/ clean_covid_data_again

SpecCovid == InitCovid /\ [][NextCovid]_vars

---------------------------------------------------------------------------
(* clean_economic_data *)

Indicators == {"gdp_growth", "unemployment_rate", "inflation_rate"}

\* DataFrame.fillna(method='ffill') at row i of a column: the value of the last
\* row at or before i whose value is not missing, NaN when there is none
BackFill(col, i) ==
    LET later == {j \in i..Len(col) : ~IsNaN(col[j])}
    IN  IF later = {} THEN NaN ELSE col[CHOOSE j \in later : \A k \in later : j <= k]

Ffill(col, i) ==
    LET upto == {j \in 1..i : ~IsNaN(col[j])}
    IN  IF upto = {} THEN NaN ELSE col[SetMax(upto)]

\* Series.pct_change() at row i: data / data.shift(1) - 1, where data is the
\* column with its missing values padded (fill_method='pad') and shift(1) puts
\* NaN before the first row
PctChangeOverCurrent(col, i) ==
    IF i = 1 THEN NaN
    ELSE Sub(Num(1), Div(Ffill(col, i - 1), Ffill(col, i)))

PctChange(col, i) ==
    LET shifted == IF i = 1 THEN NaN ELSE Ffill(col, i - 1)
    IN  Sub(Div(Ffill(col, i), shifted), Num(1))

Column(df, name) == [i \in 1..Len(df) |-> df[i][name]]

\* lines 74-77: the rows in the order sort_values gave, dates parsed
SortedEconomic(raw, order) ==
    [i \in 1..Len(order) |->
        [raw[order[i]] EXCEPT !.date = to_datetime(raw[order[i]].date)]]

\* line 80
ForwardFilled(df) ==
    [i \in 1..Len(df) |->
        [date              |-> df[i].date,
         gdp_growth        |-> Ffill(Column(df, "gdp_growth"), i),
         unemployment_rate |-> Ffill(Column(df, "unemployment_rate"), i),
         inflation_rate    |-> Ffill(Column(df, "inflation_rate"), i)]]

\* lines 83-85
WithChanges(df) ==
    [i \in 1..Len(df) |->
        df[i] @@
        [gdp_growth_change   |-> Mul(PctChange(Column(df, "gdp_growth"), i), Num(100)),
         unemployment_change |-> Mul(PctChange(Column(df, "unemployment_rate"), i), Num(100)),
         inflation_change    |-> Mul(PctChange(Column(df, "inflation_rate"), i), Num(100))]]

\* the table clean_economic_data returns when sort_values gives `order`
CleanEconomicTable(raw, order) == WithChanges(ForwardFilled(SortedEconomic(raw, order)))

clean_economic_data_call ==
    /\ economic_pc = "raw"
    /\ IF \E i \in 1..Len(economic_raw) : ~IsParseable(economic_raw[i].date)
       THEN /\ economic_pc' = "raised"
            /\ UNCHANGED <<economic_raw, economic_df, economic_order>>
       ELSE \E order \in sort_values([i \in 1..Len(economic_raw) |->
                                         to_datetime(economic_raw[i].date)]) :
            /\ economic_df' = CleanEconomicTable(economic_raw, order)
            /\ economic_order' = order
            /\ economic_raw' = DatesParsed(economic_raw)
            /\ economic_pc' = "cleaned"

clean_economic_data ==
    /\ clean_economic_data_call
    /\ UNCHANGED <<covid_vars, merged_vars, service_vars>>

---------------------------------------------------------------------------
(* inputs of clean_economic_data *)

\* the longest raw economic table
MaxEconomicRows == 3

\* <<gdp_growth, unemployment_rate, inflation_rate>> of a raw record
RawIndicators == {<<Norm(5, 2), Norm(7, 2), Num(2)>>, <<Norm(12, 5), Num(0), Num(-1)>>,
                  <<NaN, NaN, Num(3)>>, <<Num(0), Num(4), NaN>>}

EconomicRecord(d, x) ==
    [date |-> d, gdp_growth |-> x[1], unemployment_rate |-> x[2], inflation_rate |-> x[3]]

RawEconomicRecords == {EconomicRecord(d, x) : d \in RawDates, x \in RawIndicators}

EconomicTables == UNION {[1..n -> RawEconomicRecords] : n \in 1..MaxEconomicRows}

BadDateEconomicTables ==
    {<<EconomicRecord(<<2, 30>>, x), EconomicRecord(<<0, 1>>, x)>> : x \in RawIndicators}

InitEconomic ==
    /\ covid_raw = NoTable
    /\ covid_df = NoTable
    /\ covid_order = <<>>
    /\ covid_pc = "raw"
    /\ covid_again = NoTable
    /\ covid_again_pc = "none"
    /\ economic_raw \in EconomicTables \cup BadDateEconomicTables
    /\ economic_df = NoTable
    /\ economic_order = <<>>
    /\ economic_pc = "raw"
    /\ merged_df = NoTable
    /\ merged_pc = "none"
    /\ correlations = NoCorrelations
    /\ ServicesIdle

NextEconomic == clean_economic_data

SpecEconomic == InitEconomic /\ [][NextEconomic]_vars

---------------------------------------------------------------------------
(* _calculate_correlations: the coefficients *)

\* the values of the rows where both columns are present: Series.corr drops
\* every row where either value is missing
CompletePairs(df, x, y) ==
    SelectSeq(df, LAMBDA r : ~IsNaN(r[x]) /\ ~IsNaN(r[y]))

\* numpy.cov of two columns of the same rows (ddof = 1): the sum of the
\* products of the deviations from the means, over n - 1
Covariance(a, b) ==
    LET n  == Len(a)
        ma == MeanSeq(a)
        mb == MeanSeq(b)
    IN  Div(SumSeq([i \in 1..n |-> Mul(Sub(a[i], ma), Sub(b[i], mb))]), Num(n - 1))

\* Series.corr(other), Pearson: cov(a, b) / sqrt(cov(a, a) * cov(b, b)) over
\* the complete pairs, NaN when there is none.  The quotient has a square
\* root; the model keeps its sign and its square, which are rational, and
\* the coefficient is NaN exactly when its square is.
PearsonOfCovarianceOnly(df, x, y) ==
    LET rows == CompletePairs(df, x, y)
        c    == Covariance(Column(rows, x), Column(rows, y))
    IN  IF Len(rows) < 1 \/ IsNaN(c) THEN NullCoefficient
        ELSE [sign |-> Sign(c[1]), square |-> Mul(c, c)]

PearsonZeroWhenUndefined(df, x, y) ==
    LET rows == CompletePairs(df, x, y)
        a    == Column(rows, x)
        b    == Column(rows, y)
        c    == Covariance(a, b)
        r2   == Div(Mul(c, c), Mul(Covariance(a, a), Covariance(b, b)))
    IN  IF Len(rows) < 1 \/ IsNaN(r2) THEN [sign |-> 0, square |-> Num(0)]
        ELSE [sign |-> Sign(c[1]), square |-> r2]

Pearson(df, x, y) ==
    LET rows == CompletePairs(df, x, y)
        a    == Column(rows, x)
        b    == Column(rows, y)
        c    == Covariance(a, b)
        r2   == Div(Mul(c, c), Mul(Covariance(a, a), Covariance(b, b)))
    IN  IF Len(rows) < 1 \/ IsNaN(r2) THEN NullCoefficient
        ELSE [sign |-> Sign(c[1]), square |-> r2]

CalculateCasesCorrelations(df) ==
    [k \in {"cases_gdp", "cases_unemployment", "cases_inflation"} |->
        Pearson(df, CorrelationPairs[k][1], CorrelationPairs[k][2])]

calculate_correlations(df) ==
    [k \in CorrelationKeys |-> Pearson(df, CorrelationPairs[k][1], CorrelationPairs[k][2])]

---------------------------------------------------------------------------
(* merge_datasets *)

\* lines 108-109: df['month'] = df['date'].dt.to_period('M') assigns a new
\* column into the caller's table
WithMonth(df) ==
    [i \in 1..Len(df) |-> [month |-> to_period_M(df[i].date)] @@ df[i]]

\* the order of the country labels (strings compare by code point)
CountryOrder == <<"DE", "US">>

CountryRank(c) == CHOOSE i \in 1..Len(CountryOrder) : CountryOrder[i] = c

KeyLE(a, b) ==
    \/ CountryRank(a[1]) < CountryRank(b[1])
    \/ (a[1] = b[1] /\ a[2] <= b[2])

\* the group keys <<country, month>> of groupby(['country', 'month']), which
\* sorts them
RECURSIVE SortedKeys(_)
SortedKeys(keys) ==
    IF keys = {} THEN <<>>
    ELSE LET k == CHOOSE x \in keys : \A y \in keys : KeyLE(x, y)
         IN  <<k>> \o SortedKeys(keys \ {k})

GroupKeys(df) == SortedKeys({<<df[i].country, df[i].month>> : i \in 1..Len(df)})

\* the rows of a group, in row order
GroupOfKey(df, key) ==
    SelectSeq(df, LAMBDA r : r.country = key[1] /\ r.month = key[2])

LastSeq(s) == s[Len(s)]

AggregateEarliest(df, key) ==
    LET g == GroupOfKey(df, key)
    IN  [country            |-> key[1],
         month              |-> key[2],
         cases              |-> Column(g, "cases")[1],
         deaths             |-> Column(g, "deaths")[1],
         new_cases          |-> SumSeq(Column(g, "new_cases")),
         new_deaths         |-> SumSeq(Column(g, "new_deaths")),
         cases_7day_avg     |-> MeanSeq(Column(g, "cases_7day_avg")),
         deaths_7day_avg    |-> MeanSeq(Column(g, "deaths_7day_avg")),
         case_fatality_rate |-> MeanSeq(Column(g, "case_fatality_rate"))]

AggregateLatest(df, key) ==
    LET g == GroupOfKey(df, key)
    IN  [country            |-> key[1],
         month              |-> key[2],
         cases              |-> LastSeq(Column(g, "cases")),
         deaths             |-> LastSeq(Column(g, "deaths")),
         new_cases          |-> SumSeq(Column(g, "new_cases")),
         new_deaths         |-> SumSeq(Column(g, "new_deaths")),
         cases_7day_avg     |-> MeanSeq(Column(g, "cases_7day_avg")),
         deaths_7day_avg    |-> MeanSeq(Column(g, "deaths_7day_avg")),
         case_fatality_rate |-> MeanSeq(Column(g, "case_fatality_rate"))]

\* lines 112-120: one row of the aggregate, for one <<country, month>>
Aggregate(df, key) ==
    LET g == GroupOfKey(df, key)
    IN  [country            |-> key[1],
         month              |-> key[2],
         cases              |-> MaxSeq(Column(g, "cases")),
         deaths             |-> MaxSeq(Column(g, "deaths")),
         new_cases          |-> SumSeq(Column(g, "new_cases")),
         new_deaths         |-> SumSeq(Column(g, "new_deaths")),
         cases_7day_avg     |-> MeanSeq(Column(g, "cases_7day_avg")),
         deaths_7day_avg    |-> MeanSeq(Column(g, "deaths_7day_avg")),
         case_fatality_rate |-> MeanSeq(Column(g, "case_fatality_rate"))]

MonthlyCovidPerRecord(df) ==
    [i \in 1..Len(df) |-> Aggregate(<<df[i]>>, <<df[i].country, df[i].month>>)]

MonthlyCovid(df) ==
    LET keys == GroupKeys(df)
    IN  [k \in 1..Len(keys) |-> Aggregate(df, keys[k])]

KeepMonth(r) == r

\* line 131: merged_df.drop('month', axis=1)
DropMonth(r) == [f \in (DOMAIN r) \ {"month"} |-> r[f]]

\* the rows pd.merge(..., on='month', how='inner') gives for one row of the left
\* table: one for each row of the right table of the same month, in the order
\* of the right table
MatchFirstOnly(l, right) ==
    LET m == SelectSeq(right, LAMBDA r : r.month = l.month)
    IN  IF m = <<>> THEN <<>> ELSE <<l @@ m[1]>>

MatchEveryRow(l, right) == [j \in 1..Len(right) |-> l @@ right[j]]

Match(l, right) ==
    LET m == SelectSeq(right, LAMBDA r : r.month = l.month)
    IN  [j \in 1..Len(m) |-> l @@ m[j]]

\* lines 123-128: the inner join, in the order of the rows of the left table
RECURSIVE InnerJoin(_, _)
InnerJoin(left, right) ==
    IF left = <<>> THEN <<>>
    ELSE Match(left[1], right) \o InnerJoin(Tail(left), right)

\* the table merge_datasets returns
MergedTable(covid, economic) ==
    LET joined == InnerJoin(MonthlyCovid(WithMonth(covid)), WithMonth(economic))
    IN  [i \in 1..Len(joined) |-> DropMonth(joined[i])]

merge_datasets_call ==
    /\ covid_pc = "cleaned"
    /\ economic_pc = "cleaned"
    /\ merged_pc = "none"
    /\ economic_df' = WithMonth(economic_df)
    /\ covid_df' = WithMonth(covid_df)
    /\ merged_df' = MergedTable(covid_df, economic_df)
    /\ merged_pc' = "merged"
    /\ correlations' = calculate_correlations(merged_df')
    /\ UNCHANGED <<covid_raw, covid_order, covid_pc, covid_again, covid_again_pc,
                   economic_raw, economic_order, economic_pc>>

merge_datasets ==
    /\ merge_datasets_call
    /\ UNCHANGED service_vars

---------------------------------------------------------------------------
(* the pipeline: both cleaners, then the merge *)

\* the longest raw table of the pipeline whose records are drawn freely
MaxRows == 2

PipelineCovidDates == {<<1, 2>>, <<1, 3>>, <<2, 1>>}

PipelineCounts == {<<Num(3), Num(1), Num(1)>>, <<Num(0), Num(1), NaN>>}

PipelineCovidRecords ==
    {CovidRecord(d, c, n) : d \in PipelineCovidDates, c \in Countries, n \in PipelineCounts}

PipelineCovidTables == UNION {[1..n -> PipelineCovidRecords] : n \in 1..MaxRows}

PipelineEconomicDates == {<<1, 1>>, <<1, 9>>, <<3, 1>>}

PipelineIndicators == {<<Norm(5, 2), Norm(7, 2), Num(2)>>, <<NaN, Num(0), Num(-1)>>}

PipelineEconomicRecords ==
    {EconomicRecord(d, x) : d \in PipelineEconomicDates, x \in PipelineIndicators}

PipelineEconomicTables == UNION {[1..n -> PipelineEconomicRecords] : n \in 1..MaxRows}

\* raw economic tables the freely drawn COVID-19 tables are merged with: one
\* record in a month, two records in one month, months in descending order,
\* one record in each of two months
FixedEconomicTables ==
    {<<EconomicRecord(<<1, 1>>, <<Norm(5, 2), Norm(7, 2), Num(2)>>)>>,
     <<EconomicRecord(<<1, 9>>, <<Norm(12, 5), Norm(18, 5), Num(2)>>),
       EconomicRecord(<<1, 1>>, <<Norm(5, 2), Norm(7, 2), Num(2)>>)>>,
     <<EconomicRecord(<<2, 9>>, <<Num(1), Num(4), Num(3)>>),
       EconomicRecord(<<1, 1>>, <<Norm(5, 2), Norm(7, 2), Num(2)>>),
       EconomicRecord(<<2, 1>>, <<NaN, Num(5), Num(3)>>)>>,
     <<EconomicRecord(<<1, 1>>, <<Norm(5, 2), Norm(7, 2), Num(2)>>),
       EconomicRecord(<<2, 1>>, <<Num(1), Num(4), Num(2)>>)>>}

\* raw COVID-19 tables the freely drawn economic tables are merged with
FixedCovidTables ==
    {<<CovidRecord(<<1, 3>>, "US", <<Num(1), Num(1), Num(0)>>),
       CovidRecord(<<1, 2>>, "DE", <<Num(2), Num(0), Num(0)>>),
       CovidRecord(<<1, 2>>, "US", <<Num(3), Num(0), Num(0)>>)>>,
     <<CovidRecord(<<2, 1>>, "US", <<Num(4), Num(1), Num(0)>>),
       CovidRecord(<<1, 2>>, "US", <<Num(3), Num(0), Num(0)>>),
       CovidRecord(<<2, 2>>, "DE", <<NaN, Num(1), Num(0)>>)>>}

Init ==
    /\ \/ covid_raw \in PipelineCovidTables /\ economic_raw \in FixedEconomicTables
       \/ covid_raw \in FixedCovidTables /\ economic_raw \in PipelineEconomicTables
       \/ /\ covid_raw \in FixedCovidTables \cup BadDateTables
          /\ economic_raw \in FixedEconomicTables \cup BadDateEconomicTables
    /\ covid_df = NoTable
    /\ covid_order = <<>>
    /\ covid_pc = "raw"
    /\ covid_again = NoTable
    /\ covid_again_pc = "none"
    /\ economic_df = NoTable
    /\ economic_order = <<>>
    /\ economic_pc = "raw"
    /\ merged_df = NoTable
    /\ merged_pc = "none"
    /\ correlations = NoCorrelations
    /\ ServicesIdle

Next ==
    \/ clean_covid_data
    \/ clean_economic_data
    \/ merge_datasets

Spec == Init /\ [][Next]_vars

---------------------------------------------------------------------------
(* properties of clean_covid_data, checked under SpecCovid *)

\* the rows of a country, in the order of the table
CountryGroup(df, c) == SelectSeq(df, LAMBDA r : r.country = c)

\* C1: in the output of clean_covid_data, taking the rows of each country in
\* output order, new_cases (new_deaths) of the first row is 0 and of every
\* later row is cases (deaths) minus cases (deaths) of the row before it, also
\* when that difference is negative.
C1_DailyDifferences ==
    covid_pc = "cleaned" =>
        \A c \in Countries :
            LET g == CountryGroup(covid_df, c)
            IN  \A k \in 1..Len(g) :
                    /\ g[k].new_cases =
                           (IF k = 1 THEN Num(0) ELSE Sub(g[k].cases, g[k - 1].cases))
                    /\ g[k].new_deaths =
                           (IF k = 1 THEN Num(0) ELSE Sub(g[k].deaths, g[k - 1].deaths))

\* a country whose count decreases, with a row of another country in between
C1_Witness ==
    /\ covid_pc = "cleaned"
    /\ \E i, j, k \in 1..Len(covid_df) :
           /\ i < j /\ j < k
           /\ covid_df[i].country = covid_df[k].country
           /\ covid_df[j].country # covid_df[k].country
           /\ Lt(covid_df[k].cases, covid_df[i].cases)
           /\ Lt(covid_df[k].new_cases, Num(0))

\* C2: in every row of the output of clean_covid_data case_fatality_rate is
\* finite; it is 0 when cases is 0, whatever deaths is, and deaths / cases * 100
\* when cases > 0.
C2_FatalityRate ==
    covid_pc = "cleaned" =>
        \A i \in 1..Len(covid_df) :
            /\ IsFinite(covid_df[i].case_fatality_rate)
            /\ covid_df[i].cases = Num(0) => covid_df[i].case_fatality_rate = Num(0)
            /\ Lt(Num(0), covid_df[i].cases) =>
                   covid_df[i].case_fatality_rate =
                       Mul(Div(covid_df[i].deaths, covid_df[i].cases), Num(100))

\* C3: at the k-th row of a country, cases_7day_avg (deaths_7day_avg) is the
\* mean of new_cases (new_deaths) over the last min(k, 7) rows of the country
\* ending there; it is a number at every row, and at the first row it is
\* new_cases (new_deaths) of that row.
C3_RollingAverage ==
    covid_pc = "cleaned" =>
        \A c \in Countries :
            LET g == CountryGroup(covid_df, c)
            IN  \A k \in 1..Len(g) :
                    LET w == IF k < 7 THEN k ELSE 7
                        last == SubSeq(g, k - w + 1, k)
                    IN  /\ IsFinite(g[k].cases_7day_avg)
                        /\ IsFinite(g[k].deaths_7day_avg)
                        /\ Mul(g[k].cases_7day_avg, Num(w)) = SumSeq(Column(last, "new_cases"))
                        /\ Mul(g[k].deaths_7day_avg, Num(w)) = SumSeq(Column(last, "new_deaths"))
                        /\ k = 1 => /\ g[k].cases_7day_avg = g[k].new_cases
                                    /\ g[k].deaths_7day_avg = g[k].new_deaths

\* a country with more than 7 rows, where the mean of the last 7 differs from
\* the mean of all
C3_Witness ==
    /\ covid_pc = "cleaned"
    /\ \E c \in Countries :
           LET g == CountryGroup(covid_df, c)
           IN  /\ Len(g) > 7
               /\ g[Len(g)].cases_7day_avg # MeanSeq(Column(g, "new_cases"))
               /\ g[Len(g)].cases_7day_avg # Num(0)

---------------------------------------------------------------------------
(* properties of clean_economic_data, checked under SpecEconomic *)

\* C9: in the output of clean_economic_data, at every row after the first the
\* change of each indicator x is (x[i] - x[i-1]) / x[i-1] * 100, computed on
\* the values of the output; at the first row the three changes are null.
ChangeOf(x) ==
    CASE x = "gdp_growth" -> "gdp_growth_change"
      [] x = "unemployment_rate" -> "unemployment_change"
      [] x = "inflation_rate" -> "inflation_change"

C9_PercentageChange ==
    economic_pc = "cleaned" =>
        \A i \in 1..Len(economic_df) : \A x \in Indicators :
            economic_df[i][ChangeOf(x)] =
                (IF i = 1 THEN NaN
                 ELSE Mul(Div(Sub(economic_df[i][x], economic_df[i - 1][x]),
                              economic_df[i - 1][x]),
                          Num(100)))

\* gdp_growth 2.5 then 2.4: the change is -4; the first row's change is null
C9_Witness ==
    /\ economic_pc = "cleaned"
    /\ Len(economic_df) >= 2
    /\ economic_df[1].gdp_growth = Norm(5, 2)
    /\ economic_df[2].gdp_growth = Norm(12, 5)
    /\ economic_df[2].gdp_growth_change = Num(-4)
    /\ IsNaN(economic_df[1].gdp_growth_change)

\* the raw value of indicator x of the record that became row i of the output
RawValue(i, x) == economic_raw[economic_order[i]][x]

\* C10: in the output of clean_economic_data a value that is present in the
\* input is unchanged; a missing value takes the value of the closest earlier
\* row (in output order) whose input value is present; with no such row it
\* stays missing.
C10_ForwardFill ==
    economic_pc = "cleaned" =>
        \A i \in 1..Len(economic_df) : \A x \in Indicators :
            /\ ~IsNaN(RawValue(i, x)) => economic_df[i][x] = RawValue(i, x)
            /\ (\A j \in 1..i : IsNaN(RawValue(j, x))) => IsNaN(economic_df[i][x])
            /\ \A j \in 1..(i - 1) :
                   (/\ IsNaN(RawValue(i, x))
                    /\ ~IsNaN(RawValue(j, x))
                    /\ \A k \in (j + 1)..(i - 1) : IsNaN(RawValue(k, x)))
                   => economic_df[i][x] = RawValue(j, x)

\* a leading missing value that stays missing, and a later missing value that
\* is filled from a row that is not the one next to it
C10_Witness ==
    /\ economic_pc = "cleaned"
    /\ \E x \in Indicators :
           /\ Len(economic_df) >= 3
           /\ ~IsNaN(RawValue(1, x)) /\ IsNaN(RawValue(2, x)) /\ IsNaN(RawValue(3, x))
           /\ economic_df[3][x] = RawValue(1, x)
    /\ \E x \in Indicators : IsNaN(RawValue(1, x)) /\ IsNaN(economic_df[1][x])

---------------------------------------------------------------------------
(* properties of the cleaners and of merge_datasets, checked under Spec *)

NonDecreasing(df) == \A i \in 1..(Len(df) - 1) : DateLE(df[i].date, df[i + 1].date)

Occurrences(s, x) == Cardinality({i \in 1..Len(s) : s[i] = x})

\* s and t hold the same elements, each as often
SameElements(s, t) ==
    /\ Len(s) = Len(t)
    /\ \A i \in 1..Len(s) : Occurrences(s, s[i]) = Occurrences(t, s[i])

IsPermutation(order, n) ==
    /\ Len(order) = n
    /\ \A k \in 1..n : \E i \in 1..n : order[i] = k

\* what identifies a COVID-19 record: its date and country and its counts, a
\* missing count read as 0
CovidIdentity(r) ==
    [date |-> r.date, country |-> r.country, cases |-> fillna(r.cases, Num(0)),
     deaths |-> fillna(r.deaths, Num(0)), recovered |-> fillna(r.recovered, Num(0))]

\* C4: whatever the order of the input, the dates of the output of
\* clean_covid_data and of clean_economic_data are non-decreasing, and the
\* output holds the records of the input, each as often as the input does.
C4_SortedSameRecords ==
    /\ covid_pc = "cleaned" =>
           /\ NonDecreasing(covid_df)
           /\ SameElements([i \in 1..Len(covid_df) |-> CovidIdentity(covid_df[i])],
                           [i \in 1..Len(covid_raw) |-> CovidIdentity(covid_raw[i])])
    /\ economic_pc = "cleaned" =>
           /\ NonDecreasing(economic_df)
           /\ IsPermutation(economic_order, Len(economic_raw))
           /\ Len(economic_df) = Len(economic_raw)
           /\ \A i \in 1..Len(economic_df) :
                  /\ economic_df[i].date = economic_raw[economic_order[i]].date
                  /\ \A x \in Indicators :
                         ~IsNaN(RawValue(i, x)) => economic_df[i][x] = RawValue(i, x)

\* both inputs came with a later record before an earlier one
C4_Witness ==
    /\ covid_pc = "cleaned"
    /\ economic_pc = "cleaned"
    /\ \E i, j \in 1..Len(covid_raw) :
           i < j /\ ~DateLE(covid_raw[i].date, covid_raw[j].date)
    /\ \E i, j \in 1..Len(economic_raw) :
           i < j /\ ~DateLE(economic_raw[i].date, economic_raw[j].date)

MonthOf(r) == to_period_M(r.date)

\* the cleaned COVID-19 rows of a country in a month, in the order of the table
CovidRowsOf(c, m) == SelectSeq(covid_df, LAMBDA r : r.country = c /\ MonthOf(r) = m)

\* the cleaned economic rows of a month, in the order of the table
EconomicRowsOf(m) == SelectSeq(economic_df, LAMBDA r : MonthOf(r) = m)

\* the merged rows of a country in a month, in the order of the table
MergedRowsOf(c, m) == SelectSeq(merged_df, LAMBDA r : r.country = c /\ MonthOf(r) = m)

SharedMonth ==
    \E i \in 1..Len(covid_df) : \E j \in 1..Len(economic_df) :
        MonthOf(covid_df[i]) = MonthOf(economic_df[j])

\* C5: every merged row belongs to a country and month of which the COVID-19
\* table has a record and to a month of which the economic table has a record;
\* when the two tables share no month the merged table has no row.
C5_InnerJoin ==
    merged_pc = "merged" =>
        /\ \A i \in 1..Len(merged_df) :
               /\ CovidRowsOf(merged_df[i].country, MonthOf(merged_df[i])) # <<>>
               /\ EconomicRowsOf(MonthOf(merged_df[i])) # <<>>
        /\ ~SharedMonth => merged_df = <<>>

\* a merge that kept a month and dropped a month of each table
C5_Witness ==
    /\ merged_pc = "merged"
    /\ merged_df # <<>>
    /\ \E i \in 1..Len(covid_df) : EconomicRowsOf(MonthOf(covid_df[i])) = <<>>
    /\ \E j \in 1..Len(economic_df) :
           \A i \in 1..Len(covid_df) : MonthOf(covid_df[i]) # MonthOf(economic_df[j])

\* C6: in every merged row the COVID-19 fields are reduced over the cleaned
\* records of the row's country in the row's month: cases and deaths are the
\* maximum, new_cases and new_deaths the sum, cases_7day_avg, deaths_7day_avg
\* and case_fatality_rate the arithmetic mean.
IsMaximum(v, s) ==
    /\ \E i \in 1..Len(s) : s[i] = v
    /\ \A i \in 1..Len(s) : ~Lt(v, s[i])

IsMean(v, s) == Mul(v, Num(Len(s))) = SumSeq(s)

C6_MonthlyReducers ==
    merged_pc = "merged" =>
        \A i \in 1..Len(merged_df) :
            LET g == CovidRowsOf(merged_df[i].country, MonthOf(merged_df[i]))
            IN  /\ IsMaximum(merged_df[i].cases, Column(g, "cases"))
                /\ IsMaximum(merged_df[i].deaths, Column(g, "deaths"))
                /\ merged_df[i].new_cases = SumSeq(Column(g, "new_cases"))
                /\ merged_df[i].new_deaths = SumSeq(Column(g, "new_deaths"))
                /\ IsMean(merged_df[i].cases_7day_avg, Column(g, "cases_7day_avg"))
                /\ IsMean(merged_df[i].deaths_7day_avg, Column(g, "deaths_7day_avg"))
                /\ IsMean(merged_df[i].case_fatality_rate, Column(g, "case_fatality_rate"))

\* a merged row of a country and month with several records, the last of which
\* does not hold the greatest count
C6_Witness ==
    /\ merged_pc = "merged"
    /\ \E i \in 1..Len(merged_df) :
           LET g == CovidRowsOf(merged_df[i].country, MonthOf(merged_df[i]))
           IN  /\ Len(g) >= 2
               /\ Lt(g[Len(g)].cases, merged_df[i].cases)
               /\ IsFinite(merged_df[i].case_fatality_rate)
               /\ merged_df[i].case_fatality_rate # Num(0)

\* C7, as claimed: no two merged rows share the country and the month.
C7_OneRowPerCountryMonth ==
    merged_pc = "merged" =>
        \A i, j \in 1..Len(merged_df) :
            (merged_df[i].country = merged_df[j].country
             /\ MonthOf(merged_df[i]) = MonthOf(merged_df[j])) => i = j

OneEconomicRecordPerMonth ==
    \A i, j \in 1..Len(economic_df) :
        MonthOf(economic_df[i]) = MonthOf(economic_df[j]) => i = j

\* C7, amended: when the economic table has at most one record in each month,
\* no two merged rows share the country and the month.
C7_OneRowPerCountryMonthOfSingleRecords ==
    (merged_pc = "merged" /\ OneEconomicRecordPerMonth) =>
        \A i, j \in 1..Len(merged_df) :
            (merged_df[i].country = merged_df[j].country
             /\ MonthOf(merged_df[i]) = MonthOf(merged_df[j])) => i = j

\* one economic record in a month of which a country has several records
C7_Witness ==
    /\ merged_pc = "merged"
    /\ OneEconomicRecordPerMonth
    /\ \E i \in 1..Len(merged_df) :
           Len(CovidRowsOf(merged_df[i].country, MonthOf(merged_df[i]))) >= 2

EconomicFields ==
    {"date", "gdp_growth", "unemployment_rate", "inflation_rate",
     "gdp_growth_change", "unemployment_change", "inflation_change"}

EconomicPart(r) == [f \in EconomicFields |-> r[f]]

CovidPart(r) == [f \in (DOMAIN r) \ EconomicFields |-> r[f]]

Months(df) == {MonthOf(df[i]) : i \in 1..Len(df)}

\* C8: for every country and month of which the COVID-19 table has a record,
\* the merged table holds one row for each economic record of that month, in
\* their order, each with the same COVID-19 aggregate; so all countries of a
\* month are joined to the same economic records.
C8_RowPerEconomicRecord ==
    merged_pc = "merged" =>
        \A c \in Countries : \A m \in Months(covid_df) :
            LET rows == MergedRowsOf(c, m)
                eco == EconomicRowsOf(m)
            IN  IF CovidRowsOf(c, m) = <<>> THEN rows = <<>>
                ELSE /\ Len(rows) = Len(eco)
                     /\ \A k \in 1..Len(rows) :
                            /\ EconomicPart(rows[k]) = EconomicPart(eco[k])
                            /\ CovidPart(rows[k]) = CovidPart(rows[1])

\* two countries in a month of which the economic table has two records
C8_Witness ==
    /\ merged_pc = "merged"
    /\ \E m \in Months(covid_df) :
           /\ Len(EconomicRowsOf(m)) = 2
           /\ \A c \in Countries : Len(MergedRowsOf(c, m)) = 2
           /\ EconomicRowsOf(m)[1] # EconomicRowsOf(m)[2]


---------------------------------------------------------------------------
(* properties of _calculate_correlations, checked under Spec *)

\* the rows of the merged table where both columns of a key are present
PairedRows(k) ==
    LET x == CorrelationPairs[k][1]
        y == CorrelationPairs[k][2]
    IN  {i \in 1..Len(merged_df) : merged_df[i][x] # NaN /\ merged_df[i][y] # NaN}

\* a column takes one value only over the paired rows of a key
ConstantOver(k, col) ==
    \A i, j \in PairedRows(k) : merged_df[i][col] = merged_df[j][col]

Undefined(k) ==
    \/ Cardinality(PairedRows(k)) < 2
    \/ ConstantOver(k, CorrelationPairs[k][1])
    \/ ConstantOver(k, CorrelationPairs[k][2])

PairedValues(k, col) ==
    Column(SelectSeq(merged_df, LAMBDA r : r[CorrelationPairs[k][1]] # NaN
                                           /\ r[CorrelationPairs[k][2]] # NaN), col)

\* the sum over all i, j of (a[i] - a[j]) * (b[i] - b[j]), which is
\* 2 * n * (n - 1) times the covariance of a and b
CrossSum(a, b) ==
    LET n == Len(a)
    IN  SumSeq([p \in 1..(n * n) |->
            LET i == 1 + ((p - 1) \div n)
                j == 1 + ((p - 1) % n)
            IN  Mul(Sub(a[i], a[j]), Sub(b[i], b[j]))])

\* the points <<x[i], y[i]>> lie on one line: the steps from the first point
\* to any two points are parallel
Collinear(x, y) ==
    \A i, j \in 1..Len(x) :
        Mul(Sub(y[i], y[1]), Sub(x[j], x[1])) = Mul(Sub(y[j], y[1]), Sub(x[i], x[1]))

\* y = a * x + b with a > 0 (a < 0 when slope is -1); x takes two values
AffineOf(x, y, slope) ==
    /\ Collinear(x, y)
    /\ \E i, j \in 1..Len(x) :
          Sign(Mul(Sub(x[i], x[j]), Sub(y[i], y[j]))[1]) = slope

\* C12: every coefficient of _calculate_correlations that is defined lies in
\* [-1, 1]: over the paired values x, y its square is
\* covariance(x, y)^2 / (variance(x) * variance(y)) <= 1, its sign is the sign
\* of the covariance, and it is 1 (-1) exactly when y is an increasing
\* (decreasing) affine function of x.
C12_CoefficientRange ==
    merged_pc = "merged" =>
        \A k \in CorrelationKeys :
            LET x  == PairedValues(k, CorrelationPairs[k][1])
                y  == PairedValues(k, CorrelationPairs[k][2])
                r  == correlations[k]
                xy == CrossSum(x, y)
            IN  r.square # NaN =>
                    /\ ~Lt(Mul(CrossSum(x, x), CrossSum(y, y)), Mul(xy, xy))
                    /\ r.square = Div(Mul(xy, xy), Mul(CrossSum(x, x), CrossSum(y, y)))
                    /\ IsFinite(r.square)
                    /\ ~Lt(r.square, Num(0)) /\ ~Lt(Num(1), r.square)
                    /\ r.sign = Sign(xy[1])
                    /\ (r.sign = 1 /\ r.square = Num(1)) <=> AffineOf(x, y, 1)
                    /\ (r.sign = -1 /\ r.square = Num(1)) <=> AffineOf(x, y, -1)

C12_Witness ==
    /\ merged_pc = "merged"
    /\ \E k \in CorrelationKeys :
          correlations[k].sign = -1 /\ correlations[k].square = Num(1)
    /\ \E k \in CorrelationKeys :
          /\ correlations[k].sign # 0
          /\ Lt(Num(0), correlations[k].square)
          /\ Lt(correlations[k].square, Num(1))

\* a coefficient that is a number between -1 and 1
IsNumberInRange(r) ==
    /\ r.square # NaN
    /\ r.sign \in {-1, 0, 1}
    /\ ~Lt(r.square, Num(0))
    /\ ~Lt(Num(1), r.square)

---------------------------------------------------------------------------
(* properties of merge_datasets on the cleaned tables, checked under Spec *)

\* the fields of a row that hold numbers
NumericFields(r) == (DOMAIN r) \ {"date", "country"}

\* no number of a table is missing
NoMissingValue(df) ==
    \A i \in 1..Len(df) : \A f \in NumericFields(df[i]) : df[i][f] # NaN

\* C14: when the raw COVID-19 table and the raw economic table have no missing
\* value and the cleaned tables share a month, the merged table has at least
\* one row and no field of any of its rows is null.
C14_MergedWithoutNull ==
    (/\ merged_pc = "merged"
     /\ SharedMonth
     /\ NoMissingValue(covid_raw)
     /\ NoMissingValue(economic_raw)) =>
        /\ Len(merged_df) >= 1
        /\ NoMissingValue(merged_df)

\* the fields test_merge_datasets requires of the merged table
required_columns ==
    {"date", "country", "cases", "deaths", "new_cases", "new_deaths",
     "cases_7day_avg", "deaths_7day_avg", "case_fatality_rate",
     "gdp_growth", "unemployment_rate", "inflation_rate"}

\* C15: every row of the output of merge_datasets has no field month and has
\* each of the fields date, country, cases, deaths, new_cases, new_deaths,
\* cases_7day_avg, deaths_7day_avg, case_fatality_rate, gdp_growth,
\* unemployment_rate and inflation_rate, under that name.
C15_MergedFields ==
    merged_pc = "merged" =>
        \A i \in 1..Len(merged_df) :
            /\ "month" \notin DOMAIN merged_df[i]
            /\ required_columns \subseteq DOMAIN merged_df[i]

C15_Witness ==
    /\ merged_pc = "merged"
    /\ Len(merged_df) >= 2
    /\ \A i \in 1..Len(covid_df) : "month" \in DOMAIN covid_df[i]
    /\ \A i \in 1..Len(merged_df) : "month" \notin DOMAIN merged_df[i]

\* the rows of a group that have the latest date of the group
LatestDated(g) ==
    {i \in 1..Len(g) : \A j \in 1..Len(g) : DateLE(g[j].date, g[i].date)}

\* a column of a group does not decrease in the order of the table
NonDecreasingColumn(g, col) ==
    \A i \in 1..(Len(g) - 1) : ~Lt(g[i + 1][col], g[i][col])

\* C16 as claimed: in every merged row, cases (deaths) is the cases (deaths)
\* of a latest-dated cleaned COVID-19 record of the row's country and month,
\* also when the cumulative count decreases.
C16_AggregateIsLatest ==
    merged_pc = "merged" =>
        \A i \in 1..Len(merged_df) :
            LET g == CovidRowsOf(merged_df[i].country, MonthOf(merged_df[i]))
            IN  /\ \E l \in LatestDated(g) : merged_df[i].cases = g[l].cases
                /\ \E l \in LatestDated(g) : merged_df[i].deaths = g[l].deaths

\* C16, amended: in every merged row, cases (deaths) is at least the cases
\* (deaths) of every cleaned COVID-19 record of the row's country and month,
\* and equals that of the last such record of the cleaned table when cases
\* (deaths) does not decrease from one such record to the next.
C16_AggregateIsLatestOfNonDecreasing ==
    merged_pc = "merged" =>
        \A i \in 1..Len(merged_df) :
            LET g == CovidRowsOf(merged_df[i].country, MonthOf(merged_df[i]))
            IN  /\ \A j \in 1..Len(g) : ~Lt(merged_df[i].cases, g[j].cases)
                /\ \A j \in 1..Len(g) : ~Lt(merged_df[i].deaths, g[j].deaths)
                /\ NonDecreasingColumn(g, "cases") =>
                       merged_df[i].cases = g[Len(g)].cases
                /\ NonDecreasingColumn(g, "deaths") =>
                       merged_df[i].deaths = g[Len(g)].deaths

C16_Witness ==
    /\ merged_pc = "merged"
    /\ \E i \in 1..Len(merged_df) :
           LET g == CovidRowsOf(merged_df[i].country, MonthOf(merged_df[i]))
           IN  /\ Len(g) >= 2
               /\ NonDecreasingColumn(g, "cases")
               /\ Lt(g[1].cases, g[Len(g)].cases)
               /\ merged_df[i].cases = g[Len(g)].cases

---------------------------------------------------------------------------
(* properties of clean_covid_data on missing, empty and malformed input *)

\* C17: an empty input never faults: clean_covid_data given a table of no
\* record returns a table of no record, and merge_datasets given a COVID-19
\* table or an economic table of no record returns a table of no record.
C17_EmptyInputNeverFaults ==
    /\ (covid_raw = <<>> /\ covid_pc # "raw") =>
           (covid_pc = "cleaned" /\ covid_df = <<>>)
    /\ (merged_pc = "merged" /\ (covid_df = <<>> \/ economic_df = <<>>)) =>
           merged_df = <<>>

\* the row before row i among the rows of the same country, 0 when i is the
\* first row of its country
PreviousOfCountry(df, i) ==
    LET before == {j \in 1..(i - 1) : df[j].country = df[i].country}
    IN  IF before = {} THEN 0 ELSE CHOOSE j \in before : \A k \in before : k <= j

\* C18: a raw record whose cases (deaths, recovered) is missing has cases
\* (deaths, recovered) = 0 in the output of clean_covid_data, its new_cases
\* (new_deaths) is 0 minus the cases (deaths) of the previous output row of
\* the same country, 0 when there is none, and no numeric field of any output
\* row is missing.
C18_MissingCountsAreZero ==
    covid_pc = "cleaned" =>
        \A i \in 1..Len(covid_df) :
            LET raw == covid_raw[covid_order[i]]
                p   == PreviousOfCountry(covid_df, i)
            IN  /\ raw.cases = NaN =>
                       /\ covid_df[i].cases = Num(0)
                       /\ covid_df[i].new_cases =
                              IF p = 0 THEN Num(0) ELSE Sub(Num(0), covid_df[p].cases)
                /\ raw.deaths = NaN =>
                       /\ covid_df[i].deaths = Num(0)
                       /\ covid_df[i].new_deaths =
                              IF p = 0 THEN Num(0) ELSE Sub(Num(0), covid_df[p].deaths)
                /\ raw.recovered = NaN => covid_df[i].recovered = Num(0)
                /\ \A f \in NumericFields(covid_df[i]) : covid_df[i][f] # NaN

C18_Witness ==
    /\ covid_pc = "cleaned"
    /\ \E i \in 1..Len(covid_df) :
          LET p == PreviousOfCountry(covid_df, i)
          IN  /\ covid_raw[covid_order[i]].cases = NaN
              /\ p # 0
              /\ covid_df[i].cases = Num(0)
              /\ Lt(covid_df[i].new_cases, Num(0))

\* a raw date that pd.to_datetime cannot parse
IsBadRawDate(raw) == ~(raw[1] \in 1..12 /\ raw[2] \in 1..31)

\* a timestamp that pd.to_datetime can have given
IsTimestamp(ts) == ts.month \in 1..12 /\ ts.day \in 1..31

\* C19: when the date of a record of its input cannot be parsed,
\* clean_covid_data (clean_economic_data) raises to its caller and returns no
\* table: a cleaner that returned a table was given parseable dates only and
\* dropped no record, and after a cleaner raised there is no table of it and
\* merge_datasets does not run.
C19_UnparseableDateRaises ==
    /\ covid_pc = "cleaned" =>
           /\ \A i \in 1..Len(covid_raw) : IsTimestamp(covid_raw[i].date)
           /\ Len(covid_df) = Len(covid_raw)
    /\ covid_pc = "raised" =>
           /\ \E i \in 1..Len(covid_raw) : IsBadRawDate(covid_raw[i].date)
           /\ covid_df = NoTable
           /\ merged_pc = "none"
    /\ economic_pc = "cleaned" =>
           /\ \A i \in 1..Len(economic_raw) : IsTimestamp(economic_raw[i].date)
           /\ Len(economic_df) = Len(economic_raw)
    /\ economic_pc = "raised" =>
           /\ \E i \in 1..Len(economic_raw) : IsBadRawDate(economic_raw[i].date)
           /\ economic_df = NoTable
           /\ merged_pc = "none"

C19_Witness ==
    /\ covid_pc = "raised"
    /\ economic_pc = "raised"
    /\ \E i \in 1..Len(covid_raw) : IsBadRawDate(covid_raw[i].date)
    /\ \E i \in 1..Len(economic_raw) : IsBadRawDate(economic_raw[i].date)
    /\ covid_df = NoTable
    /\ economic_df = NoTable

---------------------------------------------------------------------------
(* clean_covid_data on its own output, checked under SpecCovid *)

\* C20: clean_covid_data given the table it returned returns the same records
\* in the same order, each with the same new_cases, new_deaths,
\* cases_7day_avg and deaths_7day_avg.
C20_Idempotent ==
    covid_again_pc = "cleaned" =>
        /\ Len(covid_again) = Len(covid_df)
        /\ \A i \in 1..Len(covid_df) :
               /\ covid_again[i].date = covid_df[i].date
               /\ covid_again[i].country = covid_df[i].country
               /\ covid_again[i].cases = covid_df[i].cases
               /\ covid_again[i].deaths = covid_df[i].deaths
               /\ covid_again[i].new_cases = covid_df[i].new_cases
               /\ covid_again[i].new_deaths = covid_df[i].new_deaths
               /\ covid_again[i].cases_7day_avg = covid_df[i].cases_7day_avg
               /\ covid_again[i].deaths_7day_avg = covid_df[i].deaths_7day_avg

---------------------------------------------------------------------------
(* the REST API: get_covid_data, get_economic_data, get_merged_data (api.py) *)

\* a run of the DataProcessor that has not begun
PipelineIdle ==
    /\ covid_raw = NoTable
    /\ covid_df = NoTable
    /\ covid_order = <<>>
    /\ covid_pc = "raw"
    /\ covid_again = NoTable
    /\ covid_again_pc = "none"
    /\ economic_raw = NoTable
    /\ economic_df = NoTable
    /\ economic_order = <<>>
    /\ economic_pc = "raw"
    /\ merged_df = NoTable
    /\ merged_pc = "none"
    /\ correlations = NoCorrelations

\* the most rows a table of the database holds
MaxStored == 3

\* the stored rows: row i has id i; the countries alternate
StoredTable(n) == [i \in 1..n |-> [id |-> i, country |-> IF i % 2 = 1 THEN "US" ELSE "DE"]]

\* request.args.get('limit', type=int): no integer given, or the integer
Limits ==
    {[given |-> FALSE, value |-> 0]}
        \cup {[given |-> TRUE, value |-> v] : v \in (-1)..(MaxStored + 1)}

\* request.args.get('country'): "" stands for no country given
CountryFilters == {"", "DE", "US"}

\* DatabaseManager.get_covid_data / get_merged_data: the WHERE clause is added
\* only for a country that is given and not empty
SelectRows(table, country) ==
    IF country = "" THEN table ELSE SelectSeq(table, LAMBDA r : r.country = country)

\* DataFrame.head(n): the first n rows, all but the last -n rows when n < 0
head(df, n) ==
    LET m == IF n >= 0 THEN n ELSE Len(df) + n
        k == IF m < 0 THEN 0 ELSE IF m > Len(df) THEN Len(df) ELSE m
    IN  SubSeq(df, 1, k)

\* lines 102-104: if limit: df = df.head(limit); None and 0 are false
ApplyLimit(df, limit) ==
    IF limit.given /\ limit.value # 0 THEN head(df, limit.value) ELSE df

\* lines 106-113, and handle_errors (lines 34-46) when the database raises
Respond(endpoint, limit, rows, db_ok) ==
    IF db_ok
    THEN LET data == ApplyLimit(rows, limit)
         IN  [status |-> "success", http |-> 200, endpoint |-> endpoint, limit |-> limit,
              count |-> Len(data), data |-> data]
    ELSE [status |-> "error", http |-> 500, endpoint |-> endpoint, limit |-> limit]

api_get_covid_data ==
    /\ \E limit \in Limits, country \in CountryFilters, db_ok \in BOOLEAN :
          api_response' = Respond("covid", limit, SelectRows(api_tables.covid, country), db_ok)
    /\ UNCHANGED <<api_tables, pipeline_vars, main_vars, cache_vars, db_vars>>

api_get_economic_data ==
    /\ \E limit \in Limits, db_ok \in BOOLEAN :
          api_response' = Respond("economic", limit, api_tables.economic, db_ok)
    /\ UNCHANGED <<api_tables, pipeline_vars, main_vars, cache_vars, db_vars>>

api_get_merged_data ==
    /\ \E limit \in Limits, country \in CountryFilters, db_ok \in BOOLEAN :
          api_response' = Respond("merged", limit, SelectRows(api_tables.merged, country), db_ok)
    /\ UNCHANGED <<api_tables, pipeline_vars, main_vars, cache_vars, db_vars>>

InitApi ==
    /\ PipelineIdle
    /\ \E c, e, m \in 0..MaxStored :
          api_tables = [covid |-> StoredTable(c), economic |-> StoredTable(e),
                        merged |-> StoredTable(m)]
    /\ api_response = [status |-> "none"]
    /\ MainIdle
    /\ CacheIdle
    /\ DbIdle

NextApi == api_get_covid_data \/ api_get_economic_data \/ api_get_merged_data

SpecApi == InitApi /\ [][NextApi]_vars

\* C21: a successful response to a request that gave an integer limit L has
\* count <= L, and count is the number of records in data, for every integer
\* L, 0 included, and every number of stored rows.
C21_CountAtMostLimit ==
    (api_response.status = "success" /\ api_response.limit.given) =>
        /\ api_response.count = Len(api_response.data)
        /\ api_response.count <= api_response.limit.value

---------------------------------------------------------------------------
(* main (main.py): one run of the pipeline *)

\* lines 30-72: the stages of main, in the order of the statements
Stages ==
    <<"create_tables", "fetch_covid", "clean_covid", "insert_covid",
      "fetch_economic", "clean_economic", "insert_economic",
      "merge", "insert_merged", "visualize">>

StageIndex(stage) == CHOOSE i \in 1..Len(Stages) : Stages[i] = stage

\* the statement after a stage that returned
Following(stage) ==
    IF StageIndex(stage) = Len(Stages) THEN "done" ELSE Stages[StageIndex(stage) + 1]

Suppress(stage) == Following(stage)

\* lines 76-78: except Exception: log and raise; nothing after the failing
\* statement runs
Reraise(stage) == "raised"

\* the tables fetch_covid_data can return
MainCovidTables == FixedCovidTables \cup BadDateTables \cup EmptyCovidTables

\* the tables fetch_economic_data can return
MainEconomicTables == FixedEconomicTables

main_start ==
    /\ main_pc = "idle"
    /\ main_pc' = "create_tables"
    /\ UNCHANGED <<main_calls, pipeline_vars, api_vars, cache_vars, db_vars>>

\* a call of the DatabaseManager, DataIngestion or DataVisualizer, which
\* returns or raises
CallCollaborator(stage, ok) ==
    /\ main_pc = stage
    /\ main_calls' = Append(main_calls, stage)
    /\ main_pc' = IF ok THEN Following(stage) ELSE Reraise(stage)

main_create_tables ==
    /\ \E ok \in BOOLEAN : CallCollaborator("create_tables", ok)
    /\ UNCHANGED <<pipeline_vars, api_vars, cache_vars, db_vars>>

main_fetch_covid ==
    /\ \E ok \in BOOLEAN :
          /\ CallCollaborator("fetch_covid", ok)
          /\ IF ok THEN covid_raw' \in MainCovidTables ELSE UNCHANGED covid_raw
    /\ UNCHANGED <<covid_df, covid_order, covid_pc, covid_again, covid_again_pc,
                   economic_vars, merged_vars, api_vars, cache_vars, db_vars>>

main_clean_covid ==
    /\ main_pc = "clean_covid"
    /\ clean_covid_data_call
    /\ main_calls' = Append(main_calls, "clean_covid")
    /\ main_pc' = IF covid_pc' = "raised" THEN Reraise("clean_covid")
                  ELSE Following("clean_covid")
    /\ UNCHANGED <<economic_vars, merged_vars, api_vars, cache_vars, db_vars>>

main_insert_covid ==
    /\ \E ok \in BOOLEAN : CallCollaborator("insert_covid", ok)
    /\ UNCHANGED <<pipeline_vars, api_vars, cache_vars, db_vars>>

main_fetch_economic ==
    /\ \E ok \in BOOLEAN :
          /\ CallCollaborator("fetch_economic", ok)
          /\ IF ok THEN economic_raw' \in MainEconomicTables ELSE UNCHANGED economic_raw
    /\ UNCHANGED <<economic_df, economic_order, economic_pc,
                   covid_vars, merged_vars, api_vars, cache_vars, db_vars>>

main_clean_economic ==
    /\ main_pc = "clean_economic"
    /\ clean_economic_data_call
    /\ main_calls' = Append(main_calls, "clean_economic")
    /\ main_pc' = IF economic_pc' = "raised" THEN Reraise("clean_economic")
                  ELSE Following("clean_economic")
    /\ UNCHANGED <<covid_vars, merged_vars, api_vars, cache_vars, db_vars>>

main_insert_economic ==
    /\ \E ok \in BOOLEAN : CallCollaborator("insert_economic", ok)
    /\ UNCHANGED <<pipeline_vars, api_vars, cache_vars, db_vars>>

main_merge ==
    /\ main_pc = "merge"
    /\ merge_datasets_call
    /\ main_calls' = Append(main_calls, "merge")
    /\ main_pc' = Following("merge")
    /\ UNCHANGED <<api_vars, cache_vars, db_vars>>

main_insert_merged ==
    /\ \E ok \in BOOLEAN : CallCollaborator("insert_merged", ok)
    /\ UNCHANGED <<pipeline_vars, api_vars, cache_vars, db_vars>>

main_visualize ==
    /\ \E ok \in BOOLEAN : CallCollaborator("visualize", ok)
    /\ UNCHANGED <<pipeline_vars, api_vars, cache_vars, db_vars>>

InitMain ==
    /\ PipelineIdle
    /\ ApiIdle
    /\ MainIdle
    /\ CacheIdle
    /\ DbIdle

NextMain ==
    \/ main_start
    \/ main_create_tables
    \/ main_fetch_covid
    \/ main_clean_covid
    \/ main_insert_covid
    \/ main_fetch_economic
    \/ main_clean_economic
    \/ main_insert_economic
    \/ main_merge
    \/ main_insert_merged
    \/ main_visualize

SpecMain == InitMain /\ [][NextMain]_vars

\* the stages called are the first n stages of main, each once, in order
CalledInOrder == main_calls = SubSeq(Stages, 1, Len(main_calls))

Called(stage) == \E i \in 1..Len(main_calls) : main_calls[i] = stage

---------------------------------------------------------------------------
(* SimpleCache (cache.py) *)

\* the values stored; None is what get returns for no value
Values == {1, 2}
None == 0

\* the greatest constructor arguments ttl and max_size
MaxTtl == 1
MaxSize == 2

\* the latest time of the clock
MaxTime == 1

\* the most calls of get counted in hits and misses
MaxGets == 2

KeysOf(c) == {c[i].key : i \in 1..Len(c)}

IndexOf(c, key) == CHOOSE i \in 1..Len(c) : c[i].key = key

Without(c, key) == SelectSeq(c, LAMBDA e : e.key # key)

\* line 57: time.time() - timestamp < self.ttl
NeverExpired(timestamp, now, ttl) == TRUE

IsFresh(timestamp, now, ttl) == now - timestamp < ttl

\* line 79: len(self.cache) >= self.max_size
IsOverFull(c, max_size) == Len(c) > max_size

IsFull(c, max_size) == Len(c) >= max_size

\* line 80: min(self.cache.keys(), key=lambda k: self.cache[k][1]), the first
\* in the order of the dict of the entries with the least timestamp
OldestKey(c) ==
    LET i == CHOOSE i \in 1..Len(c) :
                 /\ \A j \in 1..Len(c) : c[i].timestamp <= c[j].timestamp
                 /\ \A j \in 1..(i - 1) : c[j].timestamp > c[i].timestamp
    IN  c[i].key

\* line 84: self.cache[key] = (value, time.time()); a key of the dict keeps
\* its place, a new key goes last
Assign(c, key, value, now) ==
    IF key \in KeysOf(c)
    THEN [c EXCEPT ![IndexOf(c, key)] = [key |-> key, value |-> value, timestamp |-> now]]
    ELSE Append(c, [key |-> key, value |-> value, timestamp |-> now])

\* the key set evicts, "" when it evicts none
Evicted(c, max_size) == IF IsFull(c, max_size) THEN OldestKey(c) ELSE ""

\* lines 79-84
AfterSet(c, key, value, now, max_size) ==
    Assign(Without(c, Evicted(c, max_size)), key, value, now)

\* the latest set of each key: a key that leaves the cache is not stored
NeverStored == [value |-> None, time |-> 0, stored |-> FALSE]

Forget(latest, keys) == [k \in Keys |-> IF k \in keys THEN NeverStored ELSE latest[k]]

\* the keys of a recency list without some keys, and with a key used now
Unlist(recency, keys) == SelectSeq(recency, LAMBDA k : k \notin keys)

Touch(recency, key) == Append(Unlist(recency, {key}), key)

cache_frame == <<pipeline_vars, api_vars, main_vars, db_vars, decorator_ttl, cached_at>>

\* lines 43-68
cache_get ==
    /\ cache_hits + cache_misses < MaxGets
    /\ \E key \in Keys :
          IF key \in KeysOf(cache)
          THEN LET e == cache[IndexOf(cache, key)]
               IN  IF IsFresh(e.timestamp, cache_now, cache_ttl)
                   THEN /\ cache_hits' = cache_hits + 1
                        /\ cache_ret' = [op |-> "get", key |-> key, value |-> e.value,
                                         time |-> cache_now, removed |-> FALSE]
                        /\ cache_recency' = Touch(cache_recency, key)
                        /\ UNCHANGED <<cache, cache_misses, cache_latest>>
                   ELSE /\ cache' = Without(cache, key)
                        /\ cache_misses' = cache_misses + 1
                        /\ cache_ret' = [op |-> "get", key |-> key, value |-> None,
                                         time |-> cache_now, removed |-> TRUE]
                        /\ cache_latest' = Forget(cache_latest, {key})
                        /\ cache_recency' = Unlist(cache_recency, {key})
                        /\ UNCHANGED cache_hits
          ELSE /\ cache_misses' = cache_misses + 1
               /\ cache_ret' = [op |-> "get", key |-> key, value |-> None, time |-> cache_now,
                                removed |-> FALSE]
               /\ UNCHANGED <<cache, cache_hits, cache_latest, cache_recency>>
    /\ UNCHANGED <<cache_ttl, cache_max_size, cache_now, cache_frame>>

\* lines 70-85
cache_set ==
    /\ \E key \in Keys, value \in Values :
          LET evicted == Evicted(cache, cache_max_size)
          IN  /\ cache' = AfterSet(cache, key, value, cache_now, cache_max_size)
              /\ cache_ret' = [op |-> "set", key |-> key, time |-> cache_now,
                               before |-> KeysOf(cache), evicted |-> evicted,
                               lru |-> IF cache_recency = <<>> THEN "" ELSE cache_recency[1]]
              /\ cache_latest' =
                     [Forget(cache_latest, {evicted}) EXCEPT
                         ![key] = [value |-> value, time |-> cache_now, stored |-> TRUE]]
              /\ cache_recency' = Touch(Unlist(cache_recency, {evicted}), key)
    /\ UNCHANGED <<cache_ttl, cache_max_size, cache_hits, cache_misses, cache_now, cache_frame>>

\* lines 87-96
cache_delete ==
    /\ \E key \in Keys :
          /\ cache' = Without(cache, key)
          /\ cache_ret' = [op |-> "delete", key |-> key]
          /\ cache_latest' = Forget(cache_latest, {key})
          /\ cache_recency' = Unlist(cache_recency, {key})
    /\ UNCHANGED <<cache_ttl, cache_max_size, cache_hits, cache_misses, cache_now, cache_frame>>

\* lines 98-103
cache_clear ==
    /\ cache' = <<>>
    /\ cache_hits' = 0
    /\ cache_misses' = 0
    /\ cache_ret' = [op |-> "clear"]
    /\ cache_latest' = Forget(cache_latest, Keys)
    /\ cache_recency' = <<>>
    /\ UNCHANGED <<cache_ttl, cache_max_size, cache_now, cache_frame>>

\* lines 105-122; hit_rate is in hundredths of a percent, as "%.2f" prints it
cache_get_stats ==
    /\ LET total_requests == cache_hits + cache_misses
       IN  cache_ret' = [op |-> "get_stats", size |-> Len(cache),
                         max_size |-> cache_max_size, hits |-> cache_hits,
                         misses |-> cache_misses,
                         hit_rate |-> IF total_requests > 0
                                      THEN (2 * cache_hits * 10000 + total_requests)
                                               \div (2 * total_requests)
                                      ELSE 0,
                         ttl |-> cache_ttl]
    /\ UNCHANGED <<cache, cache_ttl, cache_max_size, cache_hits, cache_misses, cache_now,
                   cache_latest, cache_recency, cache_frame>>

\* lines 124-143
cache_cleanup_expired ==
    /\ LET expired_keys == {cache[i].key : i \in {j \in 1..Len(cache) :
                                cache_now - cache[j].timestamp >= cache_ttl}}
       IN  /\ cache' = SelectSeq(cache, LAMBDA e : e.key \notin expired_keys)
           /\ cache_ret' = [op |-> "cleanup_expired", removed |-> Cardinality(expired_keys)]
           /\ cache_latest' = Forget(cache_latest, expired_keys)
           /\ cache_recency' = Unlist(cache_recency, expired_keys)
    /\ UNCHANGED <<cache_ttl, cache_max_size, cache_hits, cache_misses, cache_now, cache_frame>>

\* time passes
cache_tick ==
    /\ cache_now < MaxTime
    /\ cache_now' = cache_now + 1
    /\ UNCHANGED <<cache, cache_ttl, cache_max_size, cache_hits, cache_misses, cache_ret,
                   cache_latest, cache_recency, cache_frame>>

\* SimpleCache(ttl, max_size), as in line 213
InitCache ==
    /\ PipelineIdle
    /\ ApiIdle
    /\ MainIdle
    /\ cache = <<>>
    /\ cache_ttl \in 1..MaxTtl
    /\ cache_max_size \in 1..MaxSize
    /\ cache_hits = 0
    /\ cache_misses = 0
    /\ cache_now = 0
    /\ cache_ret = [op |-> "none"]
    /\ cache_latest = [k \in Keys |-> [value |-> 0, time |-> 0, stored |-> FALSE]]
    /\ cache_recency = <<>>
    /\ decorator_ttl = 0
    /\ cached_at = [k \in Keys |-> -1]
    /\ DbIdle

NextCache ==
    \/ cache_get
    \/ cache_set
    \/ cache_delete
    \/ cache_clear
    \/ cache_get_stats
    \/ cache_cleanup_expired
    \/ cache_tick

SpecCache == InitCache /\ [][NextCache]_vars

\* C23: get returns a value only as the value of the latest set of the key,
\* made less than ttl before the get, with the key not deleted, evicted,
\* cleared or removed as expired since; otherwise it returns None, and after a
\* get that returned None the key is not in the cache.
C23_GetNeverExpired ==
    cache_ret.op = "get" =>
        LET k == cache_ret.key
        IN  IF cache_ret.value # None
            THEN /\ cache_latest[k].stored
                 /\ cache_latest[k].value = cache_ret.value
                 /\ cache_ret.time - cache_latest[k].time < cache_ttl
                 /\ cache_ret.time >= cache_latest[k].time
            ELSE /\ k \notin KeysOf(cache)
                 /\ ~cache_latest[k].stored

C23_Witness ==
    /\ cache_ret.op = "get"
    /\ cache_ret.value = None
    /\ cache_ret.removed
    /\ cache_misses = 1
    /\ cache_hits = 1

\* C24: with max_size >= 1 the cache never holds more than max_size entries,
\* each key once, and get_stats reports the number of entries as size.
C24_SizeAtMostMaxSize ==
    /\ Len(cache) <= cache_max_size
    /\ Cardinality(KeysOf(cache)) = Len(cache)
    /\ cache_ret.op = "get_stats" =>
           /\ cache_ret.size = Len(cache)
           /\ cache_ret.max_size = cache_max_size

C24_Witness ==
    /\ cache_ret.op = "get_stats"
    /\ cache_ret.size = MaxSize
    /\ cache_max_size = MaxSize
    /\ cache_now > 0

\* C25: a set that evicts the entry of another key removes the least recently
\* used entry, the one whose last set or returning get is the earliest.
C25_EvictsLeastRecentlyUsed ==
    (cache_ret.op = "set" /\ cache_ret.evicted \notin {"", cache_ret.key}) =>
        cache_ret.evicted = cache_ret.lru

\* C29: a set of a key that is in the cache keeps every key stored before the
\* call, and the key itself is stored after it.
C29_SetKeepsOtherKeys ==
    (cache_ret.op = "set" /\ cache_ret.key \in cache_ret.before) =>
        /\ cache_ret.before \subseteq KeysOf(cache)
        /\ cache_ret.key \in KeysOf(cache)

---------------------------------------------------------------------------
(* the decorator cached(ttl) over the global _cache (cache.py, lines 147-189) *)

\* the timestamps of the stored results without the result of some keys
Unstore(at, keys) == [k \in Keys |-> IF k \in keys THEN -1 ELSE at[k]]

\* lines 165-187: wrapper; the key stands for the function and its arguments,
\* result for what func returns when it is executed
cached_call ==
    /\ cache_hits + cache_misses < MaxGets
    /\ \E cache_key \in Keys, result \in Values :
          LET found == cache_key \in KeysOf(cache)
              fresh == found /\ IsFresh(cache[IndexOf(cache, cache_key)].timestamp,
                                        cache_now, cache_ttl)
              cached_value == IF fresh THEN cache[IndexOf(cache, cache_key)].value ELSE None
              after_get == IF fresh THEN cache ELSE Without(cache, cache_key)
              old_ttl == cache_ttl
              evicted == Evicted(after_get, cache_max_size)
          IN  IF cached_value # None
              THEN /\ cache_hits' = cache_hits + 1
                   /\ cache_ret' = [op |-> "cached", key |-> cache_key,
                                    value |-> cached_value, executed |-> FALSE,
                                    time |-> cache_now, stored_at |-> cached_at[cache_key]]
                   /\ cache_recency' = Touch(cache_recency, cache_key)
                   /\ UNCHANGED <<cache, cache_ttl, cache_misses, cache_latest, cached_at>>
              ELSE /\ cache_misses' = cache_misses + 1
                   /\ cache' = AfterSet(after_get, cache_key, result, cache_now,
                                        cache_max_size)
                   /\ cache_ttl' = old_ttl
                   /\ cache_ret' = [op |-> "cached", key |-> cache_key, value |-> result,
                                    executed |-> TRUE, time |-> cache_now,
                                    stored_at |-> cached_at[cache_key]]
                   /\ cache_latest' =
                          [Forget(cache_latest, {evicted}) EXCEPT
                              ![cache_key] = [value |-> result, time |-> cache_now,
                                              stored |-> TRUE]]
                   /\ cache_recency' = Touch(Unlist(cache_recency, {evicted}), cache_key)
                   /\ cached_at' = [Unstore(cached_at, {evicted}) EXCEPT
                                       ![cache_key] = cache_now]
                   /\ UNCHANGED cache_hits
    /\ UNCHANGED <<cache_max_size, cache_now, decorator_ttl, pipeline_vars, api_vars,
                   main_vars, db_vars>>

\* line 147: _cache = SimpleCache(); a function decorated with cached(ttl=T)
InitCached ==
    /\ PipelineIdle
    /\ ApiIdle
    /\ MainIdle
    /\ cache = <<>>
    /\ cache_ttl = DefaultTtl
    /\ cache_max_size = DefaultMaxSize
    /\ cache_hits = 0
    /\ cache_misses = 0
    /\ cache_now = 0
    /\ cache_ret = [op |-> "none"]
    /\ cache_latest = [k \in Keys |-> NeverStored]
    /\ cache_recency = <<>>
    /\ decorator_ttl \in 1..MaxTtl
    /\ cached_at = [k \in Keys |-> -1]
    /\ DbIdle

NextCached ==
    \/ cached_call
    \/ cache_tick

SpecCached == InitCached /\ [][NextCached]_vars

\* C26: a call of a function decorated with cached(ttl=T) whose result for
\* the same arguments was stored at time s executes the function at time t
\* exactly when t - s >= T, and returns the stored result otherwise.
C26_StoredResultLivesForT ==
    (cache_ret.op = "cached" /\ cache_ret.stored_at >= 0) =>
        (cache_ret.executed <=> cache_ret.time - cache_ret.stored_at >= decorator_ttl)

---------------------------------------------------------------------------
(* merge_datasets: the caller's tables *)

\* C27: after merge_datasets returns, the two tables it was given have the
\* fields the cleaners gave them: neither has gained the field month.
C27_InputsUnchanged ==
    merged_pc = "merged" => "month" \notin (columns(covid_df) \cup columns(economic_df))

---------------------------------------------------------------------------
(* DatabaseManager (database.py): the connection of each call *)

\* the most connections sqlite3.connect makes
MaxConnections == 2

Methods ==
    {"create_tables", "insert_covid_data", "insert_economic_data", "insert_merged_data",
     "get_covid_data", "get_economic_data", "get_merged_data"}

\* what connect can do: return, raise in sqlite3.connect (line 25), or raise
\* in self.conn.cursor() (line 26)
ConnectResults == {"connected", "connect_raised", "cursor_raised"}

\* line 35: self.conn.close(); closing a closed connection does nothing
LeaveOpen(open, conn) == open

Close(open, conn) == open \ {conn}

\* the object a statement of the method runs on: create_tables executes on
\* self.cursor (lines 44-96), to_sql and read_sql_query are given self.conn
StatementTarget(method) == IF method = "create_tables" THEN db_cursor ELSE db_conn

api_main_cache_frame == <<pipeline_vars, api_vars, main_vars, cache_vars>>

\* a call of a method enters its try block
db_begin ==
    /\ db_pc = "idle"
    /\ db_count < MaxConnections
    /\ \E method \in Methods :
          db_call' = [method |-> method, opened |-> 0, ran_on |-> {}, outcome |-> "running"]
    /\ db_pc' = "connect"
    /\ UNCHANGED <<db_conn, db_cursor, db_open, db_count, api_main_cache_frame>>

\* lines 22-30
db_connect ==
    /\ db_pc = "connect"
    /\ \E result \in ConnectResults :
          LET conn == db_count + 1
          IN  CASE result = "connected" ->
                     /\ db_conn' = conn
                     /\ db_cursor' = conn
                     /\ db_open' = db_open \cup {conn}
                     /\ db_count' = conn
                     /\ db_call' = [db_call EXCEPT !.opened = conn]
                     /\ db_pc' = "statement"
                [] result = "connect_raised" ->
                     /\ db_call' = [db_call EXCEPT !.outcome = "raising"]
                     /\ db_pc' = "finally"
                     /\ UNCHANGED <<db_conn, db_cursor, db_open, db_count>>
                [] result = "cursor_raised" ->
                     /\ db_conn' = conn
                     /\ db_open' = db_open \cup {conn}
                     /\ db_count' = conn
                     /\ db_call' = [db_call EXCEPT !.opened = conn, !.outcome = "raising"]
                     /\ db_pc' = "finally"
                     /\ UNCHANGED db_cursor
    /\ UNCHANGED api_main_cache_frame

\* the statements between connect and the finally clause: they return or raise
db_statement ==
    /\ db_pc = "statement"
    /\ \E ok \in BOOLEAN :
          db_call' = [db_call EXCEPT
                         !.ran_on = @ \cup {StatementTarget(db_call.method)},
                         !.outcome = IF ok THEN "returning" ELSE "raising"]
    /\ db_pc' = "finally"
    /\ UNCHANGED <<db_conn, db_cursor, db_open, db_count, api_main_cache_frame>>

\* lines 32-36, called in the finally clause of every method
db_disconnect ==
    /\ db_pc = "finally"
    /\ db_open' = IF db_conn # 0 THEN Close(db_open, db_conn) ELSE db_open
    /\ db_call' = [db_call EXCEPT
                      !.outcome = IF @ = "returning" THEN "returned" ELSE "raised"]
    /\ db_pc' = "idle"
    /\ UNCHANGED <<db_conn, db_cursor, db_count, api_main_cache_frame>>

InitDb ==
    /\ PipelineIdle
    /\ ApiIdle
    /\ MainIdle
    /\ CacheIdle
    /\ DbIdle

NextDb ==
    \/ db_begin
    \/ db_connect
    \/ db_statement
    \/ db_disconnect

SpecDb == InitDb /\ [][NextDb]_vars

\* C28: between the calls no connection is open, the connection a call opened
\* is closed when the call has returned or raised, and the statements of a call
\* run only on the connection that call opened.
C28_NoConnectionLeftOpen ==
    /\ db_pc = "idle" => db_open = {}
    /\ db_call.method # "none" =>
           /\ db_call.outcome \in {"returned", "raised"} => db_call.opened \notin db_open
           /\ db_call.ran_on \subseteq {db_call.opened} \ {0}

C28_Witness ==
    /\ db_pc = "idle"
    /\ db_call.method = "get_covid_data"
    /\ db_call.outcome = "raised"
    /\ db_call.opened = 0
    /\ db_conn # 0

---------------------------------------------------------------------------
(* clean_covid_data: the records of one country, checked under SpecCovid *)

\* the records of a country in a table, in the order of the table
CountryRecords(df, country) == SelectSeq(df, LAMBDA r : r.country = country)

AllParseable(raw) == \A i \in 1..Len(raw) : IsParseable(raw[i].date)

\* the raw tables a cleaned table is compared with
OtherCovidTables == ShortCovidTables \cup InterleavedCovidTables

\* C30: a raw table that holds the same records of a country as the cleaned
\* one, in the same order, and differs in records of other countries is
\* cleaned to the same records of that country, in the same order, whatever
\* order sort_values gives it.
C30_CountriesDoNotInterfere ==
    covid_pc = "cleaned" =>
        \A other \in OtherCovidTables, country \in Countries :
            (/\ AllParseable(other)
             /\ DatesParsed(other) # covid_raw
             /\ CountryRecords(DatesParsed(other), country) = CountryRecords(covid_raw, country)
             /\ CountryRecords(covid_raw, country) # <<>>) =>
                \A order \in sort_values([i \in 1..Len(other) |-> to_datetime(other[i].date)]) :
                    CountryRecords(CleanCovidTable(other, order), country)
                        = CountryRecords(covid_df, country)
=============================================================================
